---- MODULE Spec2Model ----
(***************************************************************************)
(* Model of opm/utility/ECLPvtOil.cpp: construction of the per-region oil  *)
(* PVT evaluators from a raw property table (validation, dead/live oil     *)
(* dispatch, primary key extraction), the value semantics of the Oil       *)
(* handle (copy, move, destruction) and the region-indexed queries.        *)
(***************************************************************************)
EXTENDS Integers, Sequences, FiniteSets, TLC

VARIABLES pImpl, impls, objs, last, crashed

vars == <<pImpl, impls, objs, last, crashed>>

---------------------------------------------------------------------------
(* Bounds of the model.                                                    *)

MaxPrimary == 3
MaxRows == 2
MaxTables == 2
NumHandles == 3

Handles == 1..NumHandles

---------------------------------------------------------------------------
(* Floating point table entries.  An entry is the decimal m * 10^e with a  *)
(* one digit mantissa m in -9..9, which is enough to tell the magnitudes   *)
(* below 1.0e20 from those at or above it.                                 *)

Val(m, e) == [m |-> m, e |-> e]

\* std::abs
Abs(v) == IF v.m < 0 THEN [v EXCEPT !.m = -v.m] ELSE v

\* a <= 1.0e20 in place of a < 1.0e20
Below1e20_orEqual(a) == a.m = 0 \/ a.e < 20 \/ (a.e = 20 /\ a.m = 1)

\* a < 1.0e20, for a non-negative a
Below1e20(a) == a.m = 0 \/ a.e < 20

\* std::abs(v) < 1.0e20: v is a table node, not the 'unused slot' sentinel
IsNode(v) == Below1e20(Abs(v))

---------------------------------------------------------------------------
(* Unit conversion.  A converter is the pair (quantity, unit system); the  *)
(* converted value records which converter was applied to which raw entry. *)

ToSI(quantity, usys) == [q |-> quantity, usys |-> usys]

Convert(cvrt, v) == [q |-> cvrt.q, usys |-> cvrt.usys, raw |-> v]

deadOilUnitConverter(usys) ==
    [indep  |-> ToSI("pressure", usys),
     column |-> << ToSI("recipFvf", usys),
                   ToSI("recipFvfVisc", usys),
                   ToSI("recipFvfDerivPress", usys),
                   ToSI("recipFvfViscDerivPress", usys) >>]

liveOilUnitConverter(usys) ==
    [first  |-> ToSI("disGas", usys),
     second |-> deadOilUnitConverter(usys)]

---------------------------------------------------------------------------
(* Raw table layout and the one-dimensional interpolants built from it.    *)

\* Sub-table i (0-based) of the raw data: numRows entries of the independent
\* variate, then, column by column, the dependent entries of the same rows.
SubTable(raw, i) ==
    LET numInterp == raw.numPrimary * raw.numTables
        colStride == raw.numRows * numInterp
    IN  [x   |-> [r \in 1..raw.numRows |-> raw.data[i*raw.numRows + r]],
         col |-> [c \in 1..(raw.numCols - 1) |->
                    [r \in 1..raw.numRows |->
                        raw.data[c*colStride + i*raw.numRows + r]]]]

RECURSIVE NodeRows(_, _)
\* the rows r..Len(x) of x that hold a node
NodeRows(x, r) ==
    IF r > Len(x) THEN <<>>
    ELSE (IF IsNode(x[r]) THEN <<r>> ELSE <<>>) \o NodeRows(x, r + 1)

\* Piecewise linear interpolant over the node rows of a sub-table; the
\* constructor throws std::invalid_argument when there is no node.
Linear(sub, indep, column) ==
    LET rows == NodeRows(sub.x, 1)
    IN  IF rows = <<>>
        THEN [threw |-> TRUE, valid |-> FALSE, x |-> <<>>, y |-> <<>>]
        ELSE [threw |-> FALSE,
              valid |-> TRUE,
              x |-> [k \in 1..Len(rows) |-> Convert(indep, sub.x[rows[k]])],
              y |-> [c \in 1..Len(column) |->
                       [k \in 1..Len(rows) |->
                           Convert(column[c], sub.col[c][rows[k]])]]]

\* The default constructed interpolant StI(Extrap{}): no nodes.
InvalidInterpolant == [valid |-> FALSE, x |-> <<>>, y |-> <<>>]

\* MakeInterpolants<T>::fromRawData: one call of the factory per sub-table,
\* numPrimary * numTables of them, in storage order.  The sub-tables handed
\* to the factory; the caller applies its factory to each.
fromRawData(raw) ==
    [i \in 1..(raw.numPrimary * raw.numTables) |-> SubTable(raw, i - 1)]

---------------------------------------------------------------------------
(* Dead oil and live oil evaluators.                                       *)

DeadOil(sub, cvrt) ==
    LET interp == Linear(sub, cvrt.indep, cvrt.column)
    IN  [threw |-> interp.threw,
         kind |-> "DeadOil",
         key |-> <<>>,
         interp |-> << [valid |-> interp.valid, x |-> interp.x, y |-> interp.y] >>]

LiveOil(key, propInterp) ==
    [threw |-> FALSE, kind |-> "LiveOil", key |-> key, interp |-> propInterp]

createDeadOil(raw, usys) ==
    LET cvrt == deadOilUnitConverter(usys)
        subs == fromRawData(raw)
        made == [i \in 1..Len(subs) |-> DeadOil(subs[i], cvrt)]
    IN  IF \E i \in 1..Len(made) : made[i].threw
        THEN [threw |-> TRUE, what |-> "No Valid Nodes", models |-> <<>>]
        ELSE [threw |-> FALSE, what |-> "",
              models |-> [i \in 1..Len(made) |->
                            [kind |-> made[i].kind, key |-> made[i].key,
                             interp |-> made[i].interp]]]

RECURSIVE extractLoop(_, _, _, _)
extractLoop(primaryKey, begin, end, cvrtKey) ==
    IF begin = end THEN <<>>
    ELSE (IF Below1e20(Abs(primaryKey[begin + 1]))
          THEN << Convert(cvrtKey, primaryKey[begin + 1]) >>
          ELSE <<>>)
         \o extractLoop(primaryKey, begin + 1, end, cvrtKey)

\* The entries of table t's slice of the primary key that are nodes, converted.
extractPrimaryKey(raw, t, cvrtKey) ==
    extractLoop(raw.primaryKey,
                (t + 0)*raw.numPrimary,
                (t + 0)*raw.numPrimary + raw.numPrimary,
                cvrtKey)

\* The sub-table factory of createLiveOil: a sub-table without nodes gives
\* the invalid interpolant instead of an exception.
liveOilSubtable(sub, cvrt) ==
    LET made == Linear(sub, cvrt.second.indep, cvrt.second.column)
    IN  IF made.threw
        THEN InvalidInterpolant
        ELSE [valid |-> made.valid, x |-> made.x, y |-> made.y]

createLiveOil(raw, usys) ==
    LET cvrt == liveOilUnitConverter(usys)
        subs == fromRawData(raw)
        sti == [i \in 1..Len(subs) |-> liveOilSubtable(subs[i], cvrt)]
        oil(t) ==
            LET key   == extractPrimaryKey(raw, t, cvrt.first)
                begin == (t + 0)*raw.numPrimary
                end   == begin + Len(key)
            IN  LiveOil(key, SubSeq(sti, begin + 1, end))
    IN  [threw |-> FALSE, what |-> "",
         models |-> [t1 \in 1..raw.numTables |->
                       [kind |-> oil(t1 - 1).kind, key |-> oil(t1 - 1).key,
                        interp |-> oil(t1 - 1).interp]]]

\* The checks without the one of the condensed data's size
validateRawTable_noDataCheck(raw) ==
    IF raw.numPrimary = 0
    THEN "Oil PVT Table Without Primary Lookup Key"
    ELSE IF raw.numCols # 5
    THEN "PVT Table for Oil Must Have Five Columns"
    ELSE IF Len(raw.primaryKey) # raw.numPrimary * raw.numTables
    THEN "Size Mismatch in RS Nodes of PVT Table for Oil"
    ELSE ""

\* The checks with the column count tested before the primary key
validateRawTable_columnsFirst(raw) ==
    IF raw.numCols # 5
    THEN "PVT Table for Oil Must Have Five Columns"
    ELSE IF raw.numPrimary = 0
    THEN "Oil PVT Table Without Primary Lookup Key"
    ELSE IF Len(raw.primaryKey) # raw.numPrimary * raw.numTables
    THEN "Size Mismatch in RS Nodes of PVT Table for Oil"
    ELSE IF Len(raw.data) #
            raw.numPrimary * raw.numRows * raw.numCols * raw.numTables
    THEN "Size Mismatch in Condensed Table Data of PVT Table for Oil"
    ELSE ""

\* The structural checks of createPVTFunction, in order: the message of the
\* first one that fails, "" when all pass.
validateRawTable(raw) ==
    IF raw.numPrimary = 0
    THEN "Oil PVT Table Without Primary Lookup Key"
    ELSE IF raw.numCols # 5
    THEN "PVT Table for Oil Must Have Five Columns"
    ELSE IF Len(raw.primaryKey) # raw.numPrimary * raw.numTables
    THEN "Size Mismatch in RS Nodes of PVT Table for Oil"
    ELSE IF Len(raw.data) #
            raw.numPrimary * raw.numRows * raw.numCols * raw.numTables
    THEN "Size Mismatch in Condensed Table Data of PVT Table for Oil"
    ELSE ""

\* numPrimary >= 1 in place of numPrimary == 1
selectBuilder_atLeastOne(raw) ==
    IF raw.numPrimary >= 1 THEN "createDeadOil" ELSE "createLiveOil"

\* Which builder a validated table is handed to.
selectBuilder(raw) ==
    IF raw.numPrimary = 1 THEN "createDeadOil" ELSE "createLiveOil"

createPVTFunction(raw, usys) ==
    LET what == validateRawTable(raw)
    IN  IF what # ""
        THEN [threw |-> TRUE, what |-> what, builder |-> "none", models |-> <<>>]
        ELSE LET builder == selectBuilder(raw)
                 built == IF builder = "createDeadOil"
                          THEN createDeadOil(raw, usys)
                          ELSE createLiveOil(raw, usys)
             IN  [threw |-> built.threw, what |-> built.what,
                  builder |-> builder, models |-> built.models]

---------------------------------------------------------------------------
(* std::size_t arithmetic.  A size_t is held as four 16 bit limbs, most    *)
(* significant first, so that the conversion of a negative int and the     *)
(* wrap of 0 - 1 are the 64 bit ones.                                      *)

Limb == 2^16

\* Conversion of an int (or of a small container size) to RegIdx: the two's
\* complement value, sign extended to 64 bits.
size_t(n) ==
    LET ext == IF n < 0 THEN Limb - 1 ELSE 0
    IN  << ext, ext, (n \div Limb) % Limb, n % Limb >>

\* a >= b on size_t
sizeGE(a, b) ==
    \/ a = b
    \/ \E i \in 1..4 : a[i] > b[i] /\ \A j \in 1..(i - 1) : a[j] = b[j]

\* a - 1 on size_t, wrapping at zero
sizeMinusOne(a) ==
    IF \A i \in 1..4 : a[i] = 0
    THEN [i \in 1..4 |-> Limb - 1]
    ELSE LET k == CHOOSE i \in 1..4 : a[i] > 0 /\ \A j \in (i + 1)..4 : a[j] = 0
         IN  [i \in 1..4 |-> IF i < k THEN a[i]
                             ELSE IF i = k THEN a[i] - 1
                             ELSE Limb - 1]

\* The position in a vector that a size_t below the vector's size names.
Index(a) == a[3]*Limb + a[4]

---------------------------------------------------------------------------
(* The heap: Impl objects and the evaluators their eval_ vectors own.      *)

NoObject == -1      \* the Oil object does not exist (not constructed, destroyed)
NULL == 0           \* pImpl_ holds no Impl (moved from)

NoRaw == [numPrimary |-> 0, numRows |-> 0, numCols |-> 0, numTables |-> 0,
          primaryKey |-> <<>>, data |-> <<>>]

NoMsg == [index |-> size_t(0), lo |-> 0, hi |-> size_t(0)]

Idle == [op |-> "none", dst |-> 0, src |-> 0, srcImpl |-> NULL,
         raw |-> NoRaw, usys |-> 0, rhoS |-> <<>>,
         outcome |-> "none", what |-> "", builder |-> "none",
         region |-> 0, curve |-> "none", msg |-> NoMsg,
         accessed |-> -1, value |-> <<>>]

RECURSIVE FreshIds(_, _, _)
\* the n smallest ids from `from` on that are not in use, ascending
FreshIds(used, n, from) ==
    IF n = 0 THEN <<>>
    ELSE IF from \in used THEN FreshIds(used, n, from + 1)
    ELSE <<from>> \o FreshIds(used, n - 1, from + 1)

Range(s) == {s[i] : i \in 1..Len(s)}

\* operator new for the n evaluators of a new Impl: the i-th object made for
\* Impl `impl` is named <<impl, i>>
NewObjects(impl, n) == [i \in 1..n |-> <<impl, i>>]

\* operator delete on an Impl: its evaluators go with it
Freed(heap, ids) == [k \in (DOMAIN heap) \ ids |-> heap[k]]

\* What a handle's catalog holds: the evaluators region by region and the
\* surface densities.
CatalogIn(ptr, impl, obj, h) ==
    [eval |-> [i \in 1..Len(impl[ptr[h]].eval_) |-> obj[impl[ptr[h]].eval_[i]]],
     rhoS |-> impl[ptr[h]].rhoS_]

Catalog(h) == CatalogIn(pImpl, impls, objs, h)

NonEmpty(h) == pImpl[h] # NoObject /\ pImpl[h] # NULL

---------------------------------------------------------------------------
(* Construction, copy, move and destruction of Oil.  Oil moves its         *)
(* unique_ptr<Impl>; the move constructor and move assignment of Impl       *)
(* itself are not called by it.                                            *)

\* Oil::Oil(raw, usys, rhoS) -> Impl::Impl(raw, usys, rhoS)
Construct(h, raw, usys, rhoS) ==
    /\ ~crashed
    /\ pImpl[h] = NoObject
    /\ LET made == createPVTFunction(raw, usys)
           impl == FreshIds(DOMAIN impls, 1, 1)[1]
           ids  == NewObjects(impl, Len(made.models))
           done == [Idle EXCEPT !.op = "Oil", !.dst = h, !.raw = raw,
                                !.usys = usys, !.rhoS = rhoS,
                                !.what = made.what, !.builder = made.builder]
       IN  IF made.threw
           THEN /\ last' = [done EXCEPT !.outcome = "invalid_argument"]
                /\ UNCHANGED <<pImpl, impls, objs, crashed>>
           ELSE /\ objs' = objs @@ [k \in Range(ids) |->
                                      made.models[CHOOSE i \in 1..Len(ids) : ids[i] = k]]
                /\ impls' = impls @@ (impl :> [eval_ |-> ids, rhoS_ |-> rhoS])
                /\ pImpl' = [pImpl EXCEPT ![h] = impl]
                /\ last' = [done EXCEPT !.outcome = "ok"]
                /\ UNCHANGED crashed

\* A copy of the pointers in place of a copy of the evaluators
clone_shallow(src, impl) ==
    [ids     |-> src,
     content |-> [i \in 1..Len(src) |-> objs[src[i]]]]

\* clone(src): one new evaluator per element of src, each a copy of it,
\* for the eval_ of the Impl under construction
clone(src, impl) ==
    [ids     |-> NewObjects(impl, Len(src)),
     content |-> [i \in 1..Len(src) |-> objs[src[i]]]]

\* Impl::Impl(const Impl& rhs), placed in a new Impl object: the heap after it
ImplCopy(rhs) ==
    LET impl == FreshIds(DOMAIN impls, 1, 1)[1]
        c    == clone(impls[rhs].eval_, impl)
    IN  [impl  |-> impl,
         objs  |-> [k \in Range(c.ids) \ DOMAIN objs |->
                      c.content[CHOOSE i \in 1..Len(c.ids) : c.ids[i] = k]] @@ objs,
         impls |-> (impl :> [eval_ |-> c.ids, rhoS_ |-> impls[rhs].rhoS_]) @@ impls]

\* The dereference of an empty pImpl_
NullDereference(done) ==
    /\ last' = [done EXCEPT !.outcome = "undefined"]
    /\ crashed' = TRUE
    /\ UNCHANGED <<pImpl, impls, objs>>

\* Oil::Oil(const Oil& rhs)
CopyConstruct(dst, src) ==
    /\ ~crashed
    /\ pImpl[dst] = NoObject
    /\ pImpl[src] # NoObject
    /\ LET done == [Idle EXCEPT !.op = "Oil(const Oil&)", !.dst = dst,
                                !.src = src, !.srcImpl = pImpl[src]]
       IN  IF pImpl[src] = NULL
           THEN NullDereference(done)
           ELSE LET c == ImplCopy(pImpl[src])
                IN  /\ objs' = c.objs
                    /\ impls' = c.impls
                    /\ pImpl' = [pImpl EXCEPT ![dst] = c.impl]
                    /\ last' = [done EXCEPT !.outcome = "ok"]
                    /\ UNCHANGED crashed

\* A move constructor that leaves the source its pointer
MoveConstruct_keepsSource(dst, src) ==
    /\ ~crashed
    /\ pImpl[dst] = NoObject
    /\ pImpl[src] # NoObject
    /\ pImpl' = [pImpl EXCEPT ![dst] = pImpl[src]]
    /\ last' = [Idle EXCEPT !.op = "Oil(Oil&&)", !.dst = dst, !.src = src,
                            !.srcImpl = pImpl[src], !.outcome = "ok"]
    /\ UNCHANGED <<impls, objs, crashed>>

\* Oil::Oil(Oil&& rhs)
MoveConstruct(dst, src) ==
    /\ ~crashed
    /\ pImpl[dst] = NoObject
    /\ pImpl[src] # NoObject
    /\ pImpl' = [pImpl EXCEPT ![dst] = pImpl[src], ![src] = NULL]
    /\ last' = [Idle EXCEPT !.op = "Oil(Oil&&)", !.dst = dst, !.src = src,
                            !.srcImpl = pImpl[src], !.outcome = "ok"]
    /\ UNCHANGED <<impls, objs, crashed>>

\* Oil::operator=(const Oil& rhs): pImpl_.reset(new Impl(*rhs.pImpl_))
CopyAssign(dst, src) ==
    /\ ~crashed
    /\ pImpl[dst] # NoObject
    /\ pImpl[src] # NoObject
    /\ LET done == [Idle EXCEPT !.op = "operator=(const Oil&)", !.dst = dst,
                                !.src = src, !.srcImpl = pImpl[src]]
       IN  IF pImpl[src] = NULL
           THEN NullDereference(done)
           ELSE LET c   == ImplCopy(pImpl[src])
                    old == pImpl[dst]
                IN  /\ objs' = IF old = NULL THEN c.objs
                               ELSE Freed(c.objs, Range(impls[old].eval_))
                    /\ impls' = IF old = NULL THEN c.impls
                                ELSE Freed(c.impls, {old})
                    /\ pImpl' = [pImpl EXCEPT ![dst] = c.impl]
                    /\ last' = [done EXCEPT !.outcome = "ok"]
                    /\ UNCHANGED crashed

\* Oil::operator=(Oil&& rhs): pImpl_ = std::move(rhs.pImpl_)
MoveAssign(dst, src) ==
    /\ ~crashed
    /\ pImpl[dst] # NoObject
    /\ pImpl[src] # NoObject
    /\ LET old == pImpl[dst]
       IN  IF dst = src
           THEN UNCHANGED <<pImpl, impls, objs>>
           ELSE /\ objs' = IF old = NULL THEN objs
                           ELSE Freed(objs, Range(impls[old].eval_))
                /\ impls' = IF old = NULL THEN impls ELSE Freed(impls, {old})
                /\ pImpl' = [pImpl EXCEPT ![dst] = pImpl[src], ![src] = NULL]
    /\ last' = [Idle EXCEPT !.op = "operator=(Oil&&)", !.dst = dst, !.src = src,
                            !.srcImpl = pImpl[src], !.outcome = "ok"]
    /\ UNCHANGED crashed

\* Oil::~Oil()
Destroy(h) ==
    /\ ~crashed
    /\ pImpl[h] # NoObject
    /\ LET old == pImpl[h]
       IN  /\ objs' = IF old = NULL THEN objs
                      ELSE Freed(objs, Range(impls[old].eval_))
           /\ impls' = IF old = NULL THEN impls ELSE Freed(impls, {old})
    /\ pImpl' = [pImpl EXCEPT ![h] = NoObject]
    /\ last' = [Idle EXCEPT !.op = "~Oil", !.dst = h, !.outcome = "ok"]
    /\ UNCHANGED crashed

---------------------------------------------------------------------------
(* Queries.                                                                *)

CurveKinds == {"FVF", "Viscosity", "SaturatedState"}

\* What the second column of a live oil graph holds for a curve kind.
CurveValue(curve) == IF curve = "SaturatedState" THEN "pressure" ELSE curve

\* PVDx::getPvtCurve: the single graph of a dead oil table, (pressure, value)
PVDx_getPvtCurve(interp, curve) ==
    [first  |-> [quantity |-> "pressure", of |-> interp],
     second |-> [quantity |-> curve, of |-> interp]]

\* PVTx::getPvtCurve: one graph per node of the outer key, in construction
\* order, (gasRatio, value)
PVTx_getPvtCurve(key, interp, curve) ==
    [i \in 1..Len(key) |->
        [first  |-> [quantity |-> "gasRatio", of |-> key[i]],
         second |-> [quantity |-> CurveValue(curve), of |-> interp[i]]]]

\* LiveOil::repackagePvtCurve
repackagePvtCurve(graphs, curve) ==
    IF curve # "SaturatedState"
    THEN graphs
    ELSE [i \in 1..Len(graphs) |->
            [first |-> graphs[i].second, second |-> graphs[i].first]]

\* DeadOil::getPvtCurve and LiveOil::getPvtCurve
PVxO_getPvtCurve(model, curve) ==
    IF model.kind = "DeadOil"
    THEN << PVDx_getPvtCurve(model.interp[1], curve) >>
    ELSE PVTx_getPvtCurve(model.key, model.interp, curve)

\* DeadOil:: and LiveOil::formationVolumeFactor, viscosity: the evaluation
\* handed to the interpolant; dead oil drops rs.
PVxO_evaluate(model, property, rs, po) ==
    IF model.kind = "DeadOil"
    THEN [f |-> "PVDx", property |-> property, key |-> <<>>,
          interp |-> model.interp, rs |-> <<>>, po |-> po]
    ELSE [f |-> "PVTx", property |-> property, key |-> model.key,
          interp |-> model.interp, rs |-> rs, po |-> po]

\* Impl::validateRegIdx
validateRegIdx(region, eval_) ==
    IF sizeGE(region, size_t(Len(eval_)))
    THEN [threw |-> TRUE,
          msg |-> [index |-> region, lo |-> 0,
                   hi |-> sizeMinusOne(size_t(Len(eval_)))]]
    ELSE [threw |-> FALSE, msg |-> NoMsg]

\* Impl::formationVolumeFactor, Impl::viscosity, Impl::getPvtCurve: validate,
\* then hand the query to eval_[region].
ImplQuery(impl, region, done, rs, po) ==
    LET v == validateRegIdx(region, impl.eval_)
        model == objs[impl.eval_[Index(region) + 1]]
    IN  IF v.threw
        THEN [done EXCEPT !.outcome = "invalid_argument", !.msg = v.msg]
        ELSE [done EXCEPT !.outcome = "ok", !.accessed = Index(region),
                          !.value = IF done.op = "getPvtCurve"
                                    THEN PVxO_getPvtCurve(model, done.curve)
                                    ELSE PVxO_evaluate(model, done.op, rs, po)]

\* Oil::formationVolumeFactor(region, rs, po)
FormationVolumeFactor(h, region, rs, po) ==
    /\ ~crashed
    /\ pImpl[h] # NoObject
    /\ LET done == [Idle EXCEPT !.op = "formationVolumeFactor", !.dst = h,
                                !.region = region]
       IN  IF pImpl[h] = NULL
           THEN NullDereference(done)
           ELSE /\ last' = ImplQuery(impls[pImpl[h]], size_t(region), done, rs, po)
                /\ UNCHANGED <<pImpl, impls, objs, crashed>>

\* Oil::viscosity(region, rs, po)
Viscosity(h, region, rs, po) ==
    /\ ~crashed
    /\ pImpl[h] # NoObject
    /\ LET done == [Idle EXCEPT !.op = "viscosity", !.dst = h, !.region = region]
       IN  IF pImpl[h] = NULL
           THEN NullDereference(done)
           ELSE /\ last' = ImplQuery(impls[pImpl[h]], size_t(region), done, rs, po)
                /\ UNCHANGED <<pImpl, impls, objs, crashed>>

\* Oil::getPvtCurve(curve, region)
GetPvtCurve(h, curve, region) ==
    /\ ~crashed
    /\ pImpl[h] # NoObject
    /\ LET done == [Idle EXCEPT !.op = "getPvtCurve", !.dst = h,
                                !.region = region, !.curve = curve]
       IN  IF pImpl[h] = NULL
           THEN NullDereference(done)
           ELSE /\ last' = ImplQuery(impls[pImpl[h]], size_t(region), done, <<>>, <<>>)
                /\ UNCHANGED <<pImpl, impls, objs, crashed>>

\* Oil::surfaceMassDensity(region): validateRegIdx looks at eval_, the read
\* is of rhoS_.  A read past the end of rhoS_ is undefined: it yields an
\* indeterminate value or ends the program.
SurfaceMassDensity(h, region) ==
    /\ ~crashed
    /\ pImpl[h] # NoObject
    /\ LET done == [Idle EXCEPT !.op = "surfaceMassDensity", !.dst = h,
                                !.region = region]
       IN  IF pImpl[h] = NULL
           THEN NullDereference(done)
           ELSE LET impl == impls[pImpl[h]]
                    r    == size_t(region)
                    v    == validateRegIdx(r, impl.eval_)
                IN  IF v.threw
                    THEN /\ last' = [done EXCEPT !.outcome = "invalid_argument",
                                                 !.msg = v.msg]
                         /\ UNCHANGED <<pImpl, impls, objs, crashed>>
                    ELSE IF Index(r) + 1 <= Len(impl.rhoS_)
                    THEN /\ last' = [done EXCEPT !.outcome = "ok",
                                                 !.accessed = Index(r),
                                                 !.value = <<impl.rhoS_[Index(r) + 1]>>]
                         /\ UNCHANGED <<pImpl, impls, objs, crashed>>
                    ELSE \E ends \in BOOLEAN :
                         /\ last' = [done EXCEPT !.outcome = "undefined",
                                                 !.accessed = Index(r)]
                         /\ crashed' = ends
                         /\ UNCHANGED <<pImpl, impls, objs>>

---------------------------------------------------------------------------
(* Inputs.                                                                 *)

\* Unit system codes: METRIC, FIELD
UnitSystems == {1, 2}

\* Entries of a primary key: 0.0, 50.0, and the sentinels 1.0e21, -1.0e20
KeyValues == {Val(0, 0), Val(5, 1), Val(1, 21), Val(-1, 20)}

\* Entry j of the condensed data: distinct positions hold distinct nodes
DataValue(j) == Val(((j - 1) % 9) + 1, ((j - 1) \div 9) - 10)

Rotate(s, k) == [i \in 1..Len(s) |-> s[((i - 1 + k) % Len(s)) + 1]]

RECURSIVE Slices(_, _)
\* the primary key of nt tables: table t holds the slice rotated by t
Slices(slice, nt) ==
    IF nt = 0 THEN <<>> ELSE Slices(slice, nt - 1) \o Rotate(slice, nt - 1)

\* A raw table.  extra entries are appended to the primary key; dataKind is
\* "plain" (all nodes), "hole" (the pressures of sub-table 0 are sentinels)
\* or "long" (one entry too many).
MkRaw(np, nr, nc, nt, slice, extra, dataKind) ==
    LET n == np*nr*nc*nt + (IF dataKind = "long" THEN 1 ELSE 0)
    IN  [numPrimary |-> np, numRows |-> nr, numCols |-> nc, numTables |-> nt,
         primaryKey |-> Slices(slice, nt) \o [i \in 1..extra |-> Val(5, 1)],
         data |-> [j \in 1..n |-> IF dataKind = "hole" /\ j <= nr
                                  THEN Val(1, 20) ELSE DataValue(j)]]

\* Surface densities, n of them
RhoS(n) == [i \in 1..n |-> 849 + i]

\* The raw tables construction is checked on: the given numbers of key
\* slots per table with every choice of entries, one and MaxRows rows, four
\* and five columns, no, one and MaxTables tables, primary key and data of
\* the right size and one entry too long.
RawTables(primaries) ==
    UNION { { MkRaw(np, nr, nc, nt, slice, extra, dk) :
                nr \in {1, MaxRows}, nc \in {4, 5}, nt \in {0, 1, MaxTables},
                slice \in [1..np -> KeyValues], extra \in {0, 1},
                dk \in {"plain", "hole", "long"} } :
            np \in primaries }

\* A dissolved gas key slice of np slots whose last slot is unused
Padded(np) ==
    [i \in 1..np |-> IF i = np /\ np > 1 THEN Val(1, 21)
                     ELSE IF i = 1 THEN Val(0, 0) ELSE Val(i + 3, 1)]

\* The tables the queries are exercised with: dead oil and live oil of
\* MaxTables regions, live oil of no region, and one of four columns.
QueryTables ==
    { MkRaw(MaxPrimary, 1, 5, nt, Padded(MaxPrimary), 0, "plain") :
        nt \in {0, MaxTables} }
    \cup { MkRaw(1, 1, 5, MaxTables, Padded(1), 0, "plain"),
            MkRaw(1, 1, 4, 1, Padded(1), 0, "plain") }

\* The tables the handle operations are exercised with: dead oil of one
\* region and live oil of two regions.
FewTables ==
    { MkRaw(1, 1, 5, 1, Padded(1), 0, "plain"),
      MkRaw(2, 1, 5, 2, Padded(2), 0, "plain") }

RegionInputs == (-1)..(MaxTables + 1)

RsInput == << Val(5, 1) >>
PoInput == << Val(2, 7) >>

---------------------------------------------------------------------------
(* Specifications.                                                         *)

Init ==
    /\ pImpl = [h \in Handles |-> NoObject]
    /\ impls = <<>>
    /\ objs = <<>>
    /\ last = Idle
    /\ crashed = FALSE

\* The Oil handles under construction, copy, move and destruction.
Next ==
    \/ \E h \in Handles, raw \in FewTables : Construct(h, raw, 1, RhoS(raw.numTables))
    \/ \E dst \in Handles, src \in Handles : CopyConstruct(dst, src)
    \/ \E dst \in Handles, src \in Handles : MoveConstruct(dst, src)
    \/ \E dst \in Handles, src \in Handles : CopyAssign(dst, src)
    \/ \E dst \in Handles, src \in Handles : MoveAssign(dst, src)
    \/ \E h \in Handles : Destroy(h)

Spec == Init /\ [][Next]_vars

\* The queries: one Oil is constructed, queried, and moved to a second
\* handle, which leaves the first one empty.
InitQuery ==
    /\ pImpl = [h \in Handles |-> NoObject]
    /\ impls = <<>>
    /\ objs = <<>>
    /\ crashed = FALSE
    /\ \E raw \in QueryTables, usys \in UnitSystems, n \in 0..MaxTables :
          last = [Idle EXCEPT !.op = "call", !.dst = 1, !.raw = raw,
                              !.usys = usys, !.rhoS = RhoS(n)]

NextQuery ==
    \/ /\ last.op = "call"
       /\ Construct(last.dst, last.raw, last.usys, last.rhoS)
    \/ /\ last.op # "call"
       /\ MoveConstruct(2, 1)
    \/ \E h \in Handles, region \in RegionInputs :
          FormationVolumeFactor(h, region, RsInput, PoInput)
    \/ \E h \in Handles, region \in RegionInputs :
          Viscosity(h, region, RsInput, PoInput)
    \/ \E h \in Handles, region \in RegionInputs, curve \in CurveKinds :
          GetPvtCurve(h, curve, region)
    \/ \E h \in Handles, region \in RegionInputs : SurfaceMassDensity(h, region)

SpecQuery == InitQuery /\ [][NextQuery]_vars

\* Construction alone: one constructor call, its arguments drawn from every
\* raw table of the bounds, then the destruction of what it built.
InitBuild ==
    /\ pImpl = [h \in Handles |-> NoObject]
    /\ impls = <<>>
    /\ objs = <<>>
    /\ crashed = FALSE
    /\ \E raw \in RawTables({0, 1, MaxPrimary}), usys \in UnitSystems :
          last = [Idle EXCEPT !.op = "call", !.dst = 1, !.raw = raw,
                              !.usys = usys, !.rhoS = RhoS(raw.numTables)]

NextBuild ==
    \/ /\ last.op = "call"
       /\ Construct(last.dst, last.raw, last.usys, last.rhoS)
    \/ /\ last.op = "Oil"
       /\ Destroy(last.dst)

SpecBuild == InitBuild /\ [][NextBuild]_vars

---------------------------------------------------------------------------
(* Construction: validation, dispatch, primary key.                        *)

MissingKey   == "Oil PVT Table Without Primary Lookup Key"
FiveColumns  == "PVT Table for Oil Must Have Five Columns"
KeySize      == "Size Mismatch in RS Nodes of PVT Table for Oil"
DataSize     == "Size Mismatch in Condensed Table Data of PVT Table for Oil"

\* The four structural invariants of a raw table, in the order of the spec
Holds(raw, k) ==
    CASE k = 1 -> raw.numPrimary >= 1
      [] k = 2 -> raw.numCols = 5
      [] k = 3 -> Len(raw.primaryKey) = raw.numPrimary * raw.numTables
      [] k = 4 -> Len(raw.data) =
                    raw.numPrimary * raw.numRows * raw.numCols * raw.numTables

Structural == << MissingKey, FiveColumns, KeySize, DataSize >>

Constructed == last.op = "Oil"

\* C1: a raw table that breaks any of the four structural invariants makes
\* the construction fail with a structural error before a builder has run,
\* and leaves no Oil, no Impl and no evaluator behind.
C1_StructuralFailureBuildsNothing ==
    (Constructed /\ \E k \in 1..4 : ~Holds(last.raw, k))
    => /\ last.outcome = "invalid_argument"
       /\ last.what \in Range(Structural)
       /\ last.builder = "none"
       /\ pImpl[last.dst] = NoObject
       /\ impls = <<>>
       /\ objs = <<>>

\* a construction refused for the size of the condensed data alone
C1_Witness ==
    /\ Constructed
    /\ \A k \in 1..3 : Holds(last.raw, k)
    /\ ~Holds(last.raw, 4)
    /\ last.raw.numTables = MaxTables
    /\ last.outcome = "invalid_argument"
    /\ pImpl[last.dst] = NoObject

\* C10: the error reported is the one of the first invariant broken, in the
\* order missing key, five columns, key size, data size; four columns with
\* a primary key always report the five column error.
C10_FirstViolationReported ==
    Constructed
    => /\ \A k \in 1..4 :
             (~Holds(last.raw, k) /\ \A j \in 1..(k - 1) : Holds(last.raw, j))
             => (last.outcome = "invalid_argument" /\ last.what = Structural[k])
       /\ (last.raw.numCols = 4 /\ last.raw.numPrimary >= 1)
             => last.what = FiveColumns

\* a table that breaks the first three invariants at once
C10_Witness ==
    /\ Constructed
    /\ ~Holds(last.raw, 1) /\ ~Holds(last.raw, 2) /\ ~Holds(last.raw, 3)
    /\ last.what = MissingKey

Built == Constructed /\ last.outcome = "ok"

\* C6: a validated table with one key slot per table gives dead oil in every
\* region, one with more gives live oil in every region.
C6_VariantByNumPrimary ==
    Built
    => \A i \in 1..Len(Catalog(last.dst).eval) :
          Catalog(last.dst).eval[i].kind =
             (IF last.raw.numPrimary = 1 THEN "DeadOil" ELSE "LiveOil")

\* MaxTables regions of live oil
C6_Witness ==
    /\ Built
    /\ last.raw.numPrimary > 1
    /\ Len(Catalog(last.dst).eval) = MaxTables
    /\ \A i \in 1..MaxTables : Catalog(last.dst).eval[i].kind = "LiveOil"

\* the magnitude of an entry is below 1.0e20
Unused(v) == v.m # 0 /\ v.e >= 20

\* table t's slice of the primary key (t from 0)
KeySlice(raw, t) ==
    SubSeq(raw.primaryKey, t*raw.numPrimary + 1, (t + 1)*raw.numPrimary)

\* the slots of a slice that are in use, ascending
RECURSIVE UsedSlots(_, _)
UsedSlots(slice, n) ==
    IF n = 0 THEN <<>>
    ELSE UsedSlots(slice, n - 1) \o (IF Unused(slice[n]) THEN <<>> ELSE <<n>>)

LiveBuilt == Built /\ last.raw.numPrimary > 1

\* C7: the key of table t is the entries of its slice with magnitude below
\* 1.0e20, converted, in their order; it is shorter than numPrimary when the
\* slice holds a sentinel.
C7_KeyDropsSentinels ==
    LiveBuilt
    => \A t \in 0..(last.raw.numTables - 1) :
          LET slice == KeySlice(last.raw, t)
              used  == UsedSlots(slice, Len(slice))
              key   == Catalog(last.dst).eval[t + 1].key
          IN  /\ key = [i \in 1..Len(used) |->
                          [q |-> "disGas", usys |-> last.usys, raw |-> slice[used[i]]]]
              /\ Len(key) <= last.raw.numPrimary
              /\ (\E n \in 1..Len(slice) : Unused(slice[n]))
                    => Len(key) < last.raw.numPrimary

\* the slice 0.0, 50.0, 1.0e21 gives a key of length 2
C7_Witness ==
    /\ LiveBuilt
    /\ last.raw.numPrimary = 3
    /\ last.raw.numTables >= 1
    /\ KeySlice(last.raw, 0) = << Val(0, 0), Val(5, 1), Val(1, 21) >>
    /\ Len(Catalog(last.dst).eval[1].key) = 2

\* C9: the i-th entry kept in the key of table t is paired with the
\* interpolant of the sub-table in that entry's own slot.
C9_KeyPairedWithOwnSubtable ==
    LiveBuilt
    => \A t \in 0..(last.raw.numTables - 1) :
          LET slice == KeySlice(last.raw, t)
              used  == UsedSlots(slice, Len(slice))
              oil   == Catalog(last.dst).eval[t + 1]
          IN  /\ Len(oil.interp) = Len(oil.key)
              /\ \A i \in 1..Len(oil.interp) :
                    oil.interp[i] =
                       liveOilSubtable(
                          SubTable(last.raw, t*last.raw.numPrimary + used[i] - 1),
                          liveOilUnitConverter(last.usys))

---------------------------------------------------------------------------
(* Queries.                                                                *)

Queried == last.op \in {"formationVolumeFactor", "viscosity",
                        "surfaceMassDensity", "getPvtCurve"}

\* the size_t s holds the integer n
Denotes(s, n) == n >= 0 /\ s = << 0, 0, n \div Limb, n % Limb >>

Regions(h) == Len(impls[pImpl[h]].eval_)

\* C2: a query with a region outside 0 .. N-1 fails with a range error that
\* names the region and the range 0 .. N-1 and touches no entry; one with a
\* region inside passes validation and goes to that region's entry.
C2_RegionValidated ==
    (Queried /\ NonEmpty(last.dst))
    => IF last.region < 0 \/ last.region > Regions(last.dst) - 1
       THEN /\ last.outcome = "invalid_argument"
            /\ Denotes(last.msg.index, last.region)
            /\ last.msg.lo = 0
            /\ Denotes(last.msg.hi, Regions(last.dst) - 1)
            /\ last.accessed = -1
       ELSE /\ last.outcome # "invalid_argument"
            /\ last.accessed = last.region

\* C3: the saturated state curve of a live oil region comes back with the
\* columns of every graph swapped, (pressure, gasRatio); the other curves
\* come back as constructed.
C3_SaturatedStateSwapped ==
    (last.op = "getPvtCurve" /\ last.outcome = "ok" /\ NonEmpty(last.dst)
       /\ Catalog(last.dst).eval[last.region + 1].kind = "LiveOil")
    => LET oil == Catalog(last.dst).eval[last.region + 1]
           constructed == PVTx_getPvtCurve(oil.key, oil.interp, last.curve)
       IN  /\ last.value = repackagePvtCurve(constructed, last.curve)
           /\ last.curve = "SaturatedState"
                 => \A i \in 1..Len(last.value) :
                       /\ last.value[i].first.quantity = "pressure"
                       /\ last.value[i].second.quantity = "gasRatio"

\* C4: a successful construction leaves numTables evaluators and numTables
\* surface densities, and a surfaceMassDensity whose region passes validation
\* reads an entry that exists.
C4_OneDensityPerRegion ==
    /\ Built => /\ Len(impls[pImpl[last.dst]].eval_) = last.raw.numTables
                /\ Len(impls[pImpl[last.dst]].rhoS_) = last.raw.numTables
    /\ (last.op = "surfaceMassDensity" /\ NonEmpty(last.dst)
          /\ last.outcome # "invalid_argument")
       => /\ last.outcome = "ok"
          /\ last.accessed + 1 \in 1..Len(impls[pImpl[last.dst]].rhoS_)

---------------------------------------------------------------------------
(* Copy and move.                                                          *)

Copied == last.op \in {"Oil(const Oil&)", "operator=(const Oil&)"}
Moved  == last.op \in {"Oil(Oil&&)", "operator=(Oil&&)"}

\* no two handles that own a catalog share it or an evaluator of it
NoSharing ==
    \A a \in Handles, b \in Handles :
       (a # b /\ NonEmpty(a) /\ NonEmpty(b))
       => /\ pImpl[a] # pImpl[b]
          /\ Range(impls[pImpl[a]].eval_) \cap Range(impls[pImpl[b]].eval_) = {}

\* what every query of a handle answers, region by region
AnswersIn(ptr, impl, obj, h) ==
    [region \in 0..(Len(impl[ptr[h]].eval_) - 1) |->
       LET model == obj[impl[ptr[h]].eval_[region + 1]]
       IN  [fvf   |-> PVxO_evaluate(model, "formationVolumeFactor", RsInput, PoInput),
            visc  |-> PVxO_evaluate(model, "viscosity", RsInput, PoInput),
            curve |-> [c \in CurveKinds |-> PVxO_getPvtCurve(model, c)]]]

\* a copy from a handle that owns a catalog holds what the source held, and
\* leaves the source as it was
CopyTakesAll ==
    (Copied' /\ last'.outcome = "ok")
    => /\ CatalogIn(pImpl', impls', objs', last'.dst) = Catalog(last'.src)
       /\ AnswersIn(pImpl', impls', objs', last'.dst)
             = AnswersIn(pImpl, impls, objs, last'.src)
       /\ pImpl'[last'.src] \notin {NoObject, NULL}
       /\ CatalogIn(pImpl', impls', objs', last'.src) = Catalog(last'.src)

\* the step is an operation on handle h: h is its target, or the source of
\* a move
OperatesOn(h) == last'.dst = h \/ (Moved' /\ last'.src = h)

\* an operation on other handles leaves a handle its catalog, unchanged
OthersUntouched ==
    \A h \in Handles :
       (NonEmpty(h) /\ ~OperatesOn(h))
       => /\ pImpl'[h] = pImpl[h]
          /\ Catalog(h)' = Catalog(h)

\* C5: handles never share a catalog or an evaluator; a copy holds what its
\* source holds at the copy and answers every query alike; operations on one
\* handle change nothing another one holds.
C5_CopiesAreIndependent ==
    []NoSharing /\ [][CopyTakesAll /\ OthersUntouched]_vars

\* a copy assignment between two handles that both own a catalog, while a
\* third one owns another
C5_Witness ==
    /\ last.op = "operator=(const Oil&)"
    /\ last.outcome = "ok"
    /\ last.dst # last.src
    /\ Regions(last.dst) = 2
    /\ \E h \in Handles \ {last.dst, last.src} : NonEmpty(h) /\ Regions(h) = 1

\* C8: a move from a handle that owns a catalog to another handle hands over
\* that very catalog, unchanged, empties the source and touches no third
\* handle.
C8_MoveTransfersOwnership ==
    [][ (Moved' /\ last'.src # last'.dst /\ NonEmpty(last'.src))
        => LET a == last'.src
               b == last'.dst
           IN  /\ pImpl'[b] = pImpl[a]
               /\ impls'[pImpl[a]] = impls[pImpl[a]]
               /\ \A o \in Range(impls[pImpl[a]].eval_) : objs'[o] = objs[o]
               /\ pImpl'[a] = NULL
               /\ \A h \in Handles \ {a, b} :
                     /\ pImpl'[h] = pImpl[h]
                     /\ NonEmpty(h) =>
                           CatalogIn(pImpl', impls', objs', h) = Catalog(h) ]_vars

\* a move assignment onto a handle that owned a catalog, while a third
\* handle owns one too
C8_Witness ==
    /\ last.op = "operator=(Oil&&)"
    /\ last.src # last.dst
    /\ last.srcImpl # NULL
    /\ pImpl[last.dst] = last.srcImpl
    /\ pImpl[last.src] = NULL
    /\ \E h \in Handles \ {last.dst, last.src} : NonEmpty(h)

====
